---- MODULE Spec2Model ----
(***************************************************************************)
(* A model of the leettools-mcp launcher (src/index.js).                   *)
(*                                                                         *)
(* The launcher is one linear script: locate uv (installing it when        *)
(* needed), clone the repository under LEET_HOME, create the venv, install *)
(* the dependencies and spawn the server, logging to one file.  The file   *)
(* system and the installed tools outlive an invocation, so the model runs *)
(* the script several times over the same machine state.  The log file     *)
(* outlives it too; the script only appends to it, and the model keeps the *)
(* lines of the invocation under way.                                      *)
(*                                                                         *)
(* A JavaScript string that may hold line breaks is modelled by the        *)
(* sequence of its lines (what split('\n') returns); the empty string is   *)
(* the one-line sequence <<"">>.                                           *)
(***************************************************************************)
EXTENDS Integers, Sequences, FiniteSets, TLC

\* ------------------------------------------------------------- bounds
MaxRuns == 2        \* invocations of the launcher in one behaviour
MaxQuota == 2       \* a failing log write is at most this many appends away

\* ------------------------------------------------------------- values
Undefined == "<undefined>"          \* a variable absent from process.env
Null == -1                          \* the status of a child that reports no code
Unlimited == -1                     \* quota: the log file stays writable

HOME == "/home/u"
PathUv == "/usr/bin/uv"             \* what `which uv` prints when uv is on the path
EnvNames == {"HOME", "LEET_HOME", "EDS_LLM_API_KEY", "UV_HTTP_TIMEOUT"}

\* process.env with the given LEET_HOME, EDS_LLM_API_KEY and UV_HTTP_TIMEOUT.
MkEnv(h, k, t) ==
  [n \in EnvNames |->
     CASE n = "HOME" -> HOME
       [] n = "LEET_HOME" -> h
       [] n = "EDS_LLM_API_KEY" -> k
       [] OTHER -> t]

\* The environments the launcher is invoked with: each required variable
\* unset, empty and set (to one of two directories), and the timeout given
\* by the user or not.
Envs ==
  { MkEnv(Undefined, Undefined, Undefined),
    MkEnv(Undefined, "k1", "60"),
    MkEnv("", "k1", Undefined),
    MkEnv("/leet", Undefined, Undefined),
    MkEnv("/leet", "", "60"),
    MkEnv("/leet", "k1", Undefined),
    MkEnv("/leet", "k1", "60"),
    MkEnv("/leet", "k2", Undefined),
    MkEnv("/data/leet", "k1", Undefined),
    MkEnv("/data/leet", "k2", "60") }

HomeValues == {e["LEET_HOME"] : e \in Envs}

\* JavaScript truthiness of an environment value: undefined and '' are falsy.
Truthy(v) == v # Undefined /\ v # ""

\* path.join(a, b)
PathJoin(a, b) == a \o "/" \o b

\* String(code) inside a template literal
CodeStr(c) == IF c = Null THEN "null" ELSE ToString(c)

\* ------------------------------------------------------------- the log
\* const LOG_FILE = path.join(logDir, 'leettools-mcp-server-debug.log')
LOG_FILE == PathJoin(PathJoin(PathJoin(HOME, ".npm"), "_logs"),
                     "leettools-mcp-server-debug.log")

\* level.toUpperCase()
ToUpperCase(level) ==
  CASE level = "info" -> "INFO"
    [] level = "error" -> "ERROR"
    [] OTHER -> level

\* line.trim()
Trim(line) ==
  CASE line = " " -> ""
    [] line = "  out2" -> "out2"
    [] OTHER -> line

\* The lines one entry puts in the file.  The entry is
\*   `${ISO timestamp} [${LEVEL}] ${message}${extraStr}\n`
\* so the stamp and the level open its first line only, and the key=value
\* pairs close its last line; a message of several lines gives raw lines.
FormatEntry(level, message, extra) ==
  [i \in 1..Len(message) |->
     [ts    |-> IF i = 1 THEN "ISO" ELSE "",
      level |-> IF i = 1 THEN ToUpperCase(level) ELSE "",
      text  |-> message[i],
      extra |-> IF i = Len(message) THEN extra ELSE <<>>]]

\* process.exit(code): a code of null or undefined leaves the exit code 0.
ProcessExit(s, code) ==
  IF ~s.alive THEN s
  ELSE [s EXCEPT !.alive = FALSE, !.code = IF code = Null THEN 0 ELSE code]

\* fs.appendFileSync(LOG_FILE, entry) inside try/catch: a failed write exits 1.
WriteLog(s, level, message, extra) ==
  IF ~s.alive THEN s
  ELSE IF s.quota = 0 THEN ProcessExit([s EXCEPT !.logFailed = TRUE], 1)
  ELSE [s EXCEPT !.log = @ \o FormatEntry(level, message, extra),
                 !.quota = IF @ = Unlimited THEN @ ELSE @ - 1]

LogInfo(s, message, extra) == WriteLog(s, "info", message, extra)

LogError(s, message, extra) == WriteLog(s, "error", message, extra)

\* str.split('\n').forEach(line => { if (line.trim()) log(line.trim()) })
RECURSIVE LogLines(_, _, _)
LogLines(s, level, lines) ==
  IF lines = <<>> THEN s
  ELSE LET t == Trim(Head(lines))
           s1 == IF t # "" THEN WriteLog(s, level, <<t>>, <<>>) ELSE s
       IN LogLines(s1, level, Tail(lines))

\* ------------------------------------------------------------- inputs
\* What a child command can report: its status (null when it reports no
\* code), and what it printed.
Results ==
  { [status |-> 0, stdout |-> <<"">>, stderr |-> <<"">>],
    [status |-> 0, stdout |-> <<"out1", " ", "  out2", "">>, stderr |-> <<"warn", "">>],
    [status |-> 1, stdout |-> <<"">>, stderr |-> <<"err", "">>],
    [status |-> 2, stdout |-> <<"out1", "">>, stderr |-> <<"err", "">>],
    [status |-> Null, stdout |-> <<"">>, stderr |-> <<"">>] }

\* How the server child can end: 'exit' with a code (null when a signal
\* ended it), or 'error' when it could not be spawned.
ChildCodes == {0, 1, 2, Null}

UvStates == {"absent", "broken", "working"}

\* What the install script can do: fail, or succeed printing something and
\* leaving uv on the path and/or at the fallback location.
Installs ==
  { [ok |-> FALSE, output |-> <<"">>, onPath |-> FALSE, fallback |-> "same"],
    [ok |-> TRUE, output |-> <<"">>, onPath |-> TRUE, fallback |-> "working"],
    [ok |-> TRUE, output |-> <<"downloading uv", "installed uv", "">>,
     onPath |-> FALSE, fallback |-> "working"],
    [ok |-> TRUE, output |-> <<"installed uv", "">>, onPath |-> FALSE,
     fallback |-> "broken"],
    [ok |-> TRUE, output |-> <<"">>, onPath |-> FALSE, fallback |-> "same"] }

\* ------------------------------------------------------------- state
VARIABLES
  run,           \* the number of this invocation
  pc,            \* where the launcher is in the script
  env,           \* process.env of this invocation
  exitCode,      \* the launcher's exit code once pc = "exited"
  log,           \* the lines this invocation has appended to LOG_FILE
  quota,         \* appends the log file still accepts (Unlimited: all)
  fs,            \* the directories that exist
  uvOnPath,      \* uv on the system path: absent, broken or working
  uvFallback,    \* uv at $HOME/.local/bin/uv: absent, broken or working
  calls,         \* this invocation's child_process and fs calls, in order
  uvExecutable,  \* const uvExecutable = getUvPath()
  repoDir,       \* const repoDir = ensureClone()
  child,         \* the server child: none, running, exited or failed
  childEnv,      \* the env option the server child was spawned with
  childCode,     \* the code of the server child's 'exit' event
  venvMadeIn,    \* history: the pairs <<.venv path, invocation>> in which
                 \* `uv venv` succeeded
  exitAt,        \* history: the step in which the launcher exited
  logFailed,     \* history: a log write of this invocation failed
  fsAtStart,     \* history: the directories when this invocation began
  statuses       \* history: <<command line, result.status>> of each command
                 \* runCommandSync has run in this invocation, in order

vars == <<run, pc, env, exitCode, log, quota, fs, uvOnPath, uvFallback, calls,
          uvExecutable, repoDir, child, childEnv, childCode, venvMadeIn, exitAt,
          logFailed, fsAtStart, statuses>>

\* The launcher process and the machine it runs on, as one value that the
\* script's functions take and return.
Proc ==
  [alive |-> pc # "exited", code |-> exitCode, log |-> log, quota |-> quota,
   fs |-> fs, uvOnPath |-> uvOnPath, uvFallback |-> uvFallback, calls |-> calls,
   logFailed |-> logFailed,
   uvExecutable |-> uvExecutable, repoDir |-> repoDir, child |-> child,
   childEnv |-> childEnv, childCode |-> childCode, venvMadeIn |-> venvMadeIn,
   statuses |-> statuses]

\* The step to `next`, unless the function ended the process.
Commit(s, next) ==
  /\ pc' = IF s.alive THEN next ELSE "exited"
  /\ exitCode' = s.code
  /\ log' = s.log
  /\ quota' = s.quota
  /\ fs' = s.fs
  /\ uvOnPath' = s.uvOnPath
  /\ uvFallback' = s.uvFallback
  /\ calls' = s.calls
  /\ logFailed' = s.logFailed
  /\ exitAt' = IF s.alive THEN exitAt ELSE pc
  /\ uvExecutable' = s.uvExecutable
  /\ repoDir' = s.repoDir
  /\ child' = s.child
  /\ childEnv' = s.childEnv
  /\ venvMadeIn' = s.venvMadeIn
  /\ childCode' = s.childCode
  /\ statuses' = s.statuses
  /\ UNCHANGED <<run, env, fsAtStart>>

\* A child process is started (execSync, spawnSync, spawn).
Started(s, cmdline) ==
  IF ~s.alive THEN s ELSE [s EXCEPT !.calls = Append(@, <<"exec", cmdline>>)]

\* fs.existsSync(path) is called; its answer is path \in s.fs.
Probed(s, path) ==
  IF ~s.alive THEN s ELSE [s EXCEPT !.calls = Append(@, <<"exists", path>>)]

\* ------------------------------------------------------------- the script
\* The command lines the script runs.
InstallCmd == "curl -LsSf https://astral.sh/uv/install.sh | sh"

VersionCmd(uv) == uv \o " --version"

CloneCmd(dir) == "git clone https://github.com/leettools-dev/leettools-mcp.git " \o dir

VenvCmd(uv) == uv \o " venv"

AddCmd(uv) == uv \o " add torch==2.2.2 mcp[cli] leettools"

ServerCmd(uv, dir) == uv \o " --directory " \o dir \o " run leettools-mcp"

\* const fallbackPath = path.join(homeDir, '.local', 'bin', 'uv')
FallbackPath == PathJoin(PathJoin(PathJoin(HOME, ".local"), "bin"), "uv")

\* runCommandSync(cmd, args, { cwd }): `cmdline` is cmd and args joined, r is
\* what spawnSync returns and `made` the directory the command creates when
\* it succeeds.
RunCommandSync(s, cmdline, cwd, r, made) ==
  LET s1 == LogInfo(s, <<"Running command: " \o cmdline>>, <<<<"cwd", cwd>>>>)
      s2 == IF ~s1.alive THEN s1
            ELSE [Started(s1, cmdline) EXCEPT
                    !.fs = IF r.status = 0 THEN @ \cup {made} ELSE @,
                    !.statuses = Append(@, <<cmdline, r.status>>)]
      s3 == IF r.stdout # <<"">> THEN LogLines(s2, "info", r.stdout) ELSE s2
      s4 == IF r.stderr # <<"">> THEN LogLines(s3, "error", r.stderr) ELSE s3
  IN IF r.status # 0
     THEN ProcessExit(
            LogError(s4, <<"Command \"" \o cmdline \o "\" exited with code "
                           \o CodeStr(r.status)>>, <<>>),
            r.status)
     ELSE s4

\* execSync('which uv') and execSync(`${uvPath} --version`): both must succeed.
WhichUv(s) ==
  IF ~s.alive THEN [s |-> s, ok |-> FALSE]
  ELSE IF s.uvOnPath = "absent" THEN [s |-> Started(s, "which uv"), ok |-> FALSE]
  ELSE [s |-> Started(Started(s, "which uv"), VersionCmd(PathUv)),
        ok |-> s.uvOnPath = "working"]

\* return uvPath
ReturnUv(s, path) == IF ~s.alive THEN s ELSE [s EXCEPT !.uvExecutable = path]

\* execSync('curl -LsSf https://astral.sh/uv/install.sh | sh')
InstallUv(s, inst) ==
  IF ~s.alive THEN s
  ELSE [Started(s, InstallCmd) EXCEPT
          !.uvOnPath = IF inst.ok /\ inst.onPath THEN "working" ELSE @,
          !.uvFallback = IF inst.ok /\ inst.fallback # "same"
                         THEN inst.fallback ELSE @]

\* The catch (error2) block without the check of the fallback location.
UvFallback_Skip(s) ==
  ProcessExit(
    LogError(s, <<"Error: uv still not found or working after installation.">>, <<>>), 1)

\* The catch (error2) block of getUvPath: the fallback location.
UvFallback(s) ==
  LET fallbackPath == FallbackPath
      s0 == Probed(s, fallbackPath)
      s1 == IF s.alive /\ s.uvFallback # "absent"
            THEN Started(s0, VersionCmd(fallbackPath)) ELSE s0
  IN IF s.alive /\ s.uvFallback = "working"
     THEN ReturnUv(LogInfo(s1, <<"Using fallback uv at " \o fallbackPath>>, <<>>),
                   fallbackPath)
     ELSE LET s2 == IF s.alive /\ s.uvFallback = "broken"
                    THEN LogError(s1, <<"uv at fallback location is not working.">>,
                                  <<<<"fallbackError", "Error: Command failed">>>>)
                    ELSE s1
          IN ProcessExit(
               LogError(s2, <<"Error: uv still not found or working after installation.">>,
                        <<>>),
               1)

\* getUvPath(): inst is what the install script does if it is run.
getUvPath(s, inst) ==
  LET c1 == WhichUv(s)
  IN IF c1.ok THEN ReturnUv(c1.s, PathUv)
     ELSE
       LET s1 == LogInfo(c1.s, <<"uv not found or not working. Attempting to install uv...">>,
                         <<>>)
           s2 == InstallUv(s1, inst)
           s3 == IF inst.ok
                 THEN IF inst.output # <<"">> THEN LogInfo(s2, inst.output, <<>>) ELSE s2
                 ELSE ProcessExit(
                        LogError(s2, <<"Failed to install uv. Please install uv manually.">>,
                                 <<<<"installError", "Error: Command failed">>>>),
                        1)
           c2 == WhichUv(s3)
       IN IF c2.ok THEN ReturnUv(c2.s, PathUv) ELSE UvFallback(c2.s)

\* The catch block of main(): an exception thrown by a step.
MainCatch(s, error) ==
  ProcessExit(LogError(s, <<"Error during execution">>, <<<<"error", error>>>>), 1)

\* fs.mkdirSync(dir, { recursive: true }), which throws when it fails.
Mkdir(s, dir, ok) ==
  IF ~s.alive THEN s
  ELSE IF ok THEN [s EXCEPT !.fs = @ \cup {dir}, !.calls = Append(@, <<"mkdir", dir>>)]
  ELSE MainCatch(s, "Error: EACCES: permission denied, mkdir")

\* CloneInto with the fs.existsSync(repoDir) test left out.
CloneInto_NoCheck(s, targetDir, mkdirOk, r) ==
  LET s0 == Probed(s, targetDir)
      s1 == IF targetDir \notin s.fs
            THEN Mkdir(LogInfo(s0, <<"LEET_HOME directory (" \o targetDir
                                      \o ") does not exist. Creating it...">>, <<>>),
                       targetDir, mkdirOk)
            ELSE s0
      dir == PathJoin(targetDir, "leettools-mcp")
      s2 == RunCommandSync(
              LogInfo(Probed(s1, dir),
                      <<"Repository \"leettools-mcp\" not found in " \o targetDir
                        \o ". Cloning repository...">>, <<>>),
              CloneCmd(dir), targetDir, r, dir)
  IN IF ~s2.alive THEN s2 ELSE [s2 EXCEPT !.repoDir = dir]

\* The rest of ensureClone(), from `const targetDir = process.env.LEET_HOME`:
\* mkdirOk says whether mkdirSync succeeds, r is what git clone returns if
\* it is run.
CloneInto(s, targetDir, mkdirOk, r) ==
  LET s0 == Probed(s, targetDir)
      s1 == IF targetDir \notin s.fs
            THEN Mkdir(LogInfo(s0, <<"LEET_HOME directory (" \o targetDir
                                      \o ") does not exist. Creating it...">>, <<>>),
                       targetDir, mkdirOk)
            ELSE s0
      dir == PathJoin(targetDir, "leettools-mcp")
      p1 == Probed(s1, dir)
      s2 == IF dir \notin s1.fs
            THEN RunCommandSync(
                   LogInfo(p1, <<"Repository \"leettools-mcp\" not found in " \o targetDir
                                 \o ". Cloning repository...">>, <<>>),
                   CloneCmd(dir), targetDir, r, dir)
            ELSE LogInfo(p1, <<"Repository \"leettools-mcp\" already exists in "
                               \o targetDir \o ".">>, <<>>)
  IN IF ~s2.alive THEN s2 ELSE [s2 EXCEPT !.repoDir = dir]

\* ensureClone() with the process.exit(1) of its guard left out.
ensureClone_NoExit(s, e, mkdirOk, r) ==
  CloneInto(IF ~Truthy(e["LEET_HOME"])
            THEN LogError(s, <<"LEET_HOME environment variable is missing.">>, <<>>)
            ELSE s,
            e["LEET_HOME"], mkdirOk, r)

\* ensureClone()
ensureClone(s, e, mkdirOk, r) ==
  IF ~Truthy(e["LEET_HOME"])
  THEN ProcessExit(LogError(s, <<"LEET_HOME environment variable is missing.">>, <<>>), 1)
  ELSE CloneInto(s, e["LEET_HOME"], mkdirOk, r)

\* ensureVenv() with the fs.existsSync(venvPath) test left out.
ensureVenv_Always(s, r, n) ==
  LET venvPath == PathJoin(s.repoDir, ".venv")
      p == Probed(s, venvPath)
      s1 == RunCommandSync(
              LogInfo(p, <<"Virtual environment not found. Creating venv...">>, <<>>),
              VenvCmd(s.uvExecutable), s.repoDir, r, venvPath)
  IN IF r.status = 0 /\ s1.calls # p.calls
     THEN [s1 EXCEPT !.venvMadeIn = @ \cup {<<venvPath, n>>}] ELSE s1

\* ensureVenv(repoDir): r is what `uv venv` returns if it is run.
ensureVenv(s, r, n) ==
  LET venvPath == PathJoin(s.repoDir, ".venv")
      p == Probed(s, venvPath)
  IN IF venvPath \notin s.fs
     THEN LET s1 == RunCommandSync(
                      LogInfo(p, <<"Virtual environment not found. Creating venv...">>, <<>>),
                      VenvCmd(s.uvExecutable), s.repoDir, r, venvPath)
          IN IF r.status = 0 /\ s1.calls # p.calls
             THEN [s1 EXCEPT !.venvMadeIn = @ \cup {<<venvPath, n>>}] ELSE s1
     ELSE LogInfo(p, <<"Virtual environment exists.">>, <<>>)

\* installDependencies() that skips the install when the venv is there.
installDependencies_SkipIfPresent(s, r) ==
  IF PathJoin(s.repoDir, ".venv") \in s.fs THEN s
  ELSE RunCommandSync(
         LogInfo(s, <<"Installing Python dependencies using uv...">>, <<>>),
         AddCmd(s.uvExecutable), s.repoDir, r, PathJoin(s.repoDir, ".venv"))

\* installDependencies(repoDir): r is what `uv add` returns.
installDependencies(s, r) ==
  RunCommandSync(
    LogInfo(s, <<"Installing Python dependencies using uv...">>, <<>>),
    AddCmd(s.uvExecutable), s.repoDir, r,
    PathJoin(s.repoDir, ".venv"))

\* The env option with 300 as a default that the user's value overrides.
ServerEnv_KeepUser(e) ==
  IF e["UV_HTTP_TIMEOUT"] # Undefined THEN e ELSE [e EXCEPT !["UV_HTTP_TIMEOUT"] = "300"]

\* env: { ...process.env, UV_HTTP_TIMEOUT: '300' }
ServerEnv(e) == [e EXCEPT !["UV_HTTP_TIMEOUT"] = "300"]

\* runServer(repoDir), up to the spawn of the server child.
runServer(s, e) ==
  IF ~Truthy(e["LEET_HOME"])
  THEN ProcessExit(LogError(s, <<"LEET_HOME environment variable is missing.">>, <<>>), 1)
  ELSE IF ~Truthy(e["EDS_LLM_API_KEY"])
  THEN ProcessExit(LogError(s, <<"EDS_LLM_API_KEY environment variable is missing.">>, <<>>),
                   1)
  ELSE
    LET s1 == LogInfo(s, <<"Environment variables set">>,
                      << <<"LEET_HOME", e["LEET_HOME"]>>,
                         <<"EDS_LLM_API_KEY", e["EDS_LLM_API_KEY"]>>,
                         <<"UV_HTTP_TIMEOUT", "300">> >>)
        s2 == LogInfo(s1, <<"Starting LeetTools MCP server...">>, <<>>)
    IN IF ~s2.alive THEN s2
       ELSE [Started(s2, ServerCmd(s.uvExecutable, s.repoDir))
               EXCEPT !.child = "running", !.childEnv = ServerEnv(e)]

\* proc.on('error', ...)
OnServerError(s) ==
  ProcessExit(
    LogError(s, <<"Failed to run server command: "
                  \o ServerCmd(s.uvExecutable, s.repoDir)>>,
             <<<<"error", "Error: spawn failed">>>>),
    1)

\* proc.on('exit', (code) => ...).  After the handler returns nothing keeps
\* the event loop alive, and the launcher ends with the exit code it has, 0.
OnServerExit(s, code) ==
  IF code # 0
  THEN ProcessExit(LogError(s, <<"Server command exited with code " \o CodeStr(code)>>,
                            <<>>),
                   code)
  ELSE [s EXCEPT !.alive = FALSE, !.code = 0]

\* ------------------------------------------------------------- actions
NoEnv == [n \in EnvNames |-> Undefined]

\* The directories under a LEET_HOME, outermost first.
HomeTree(h) ==
  <<h, PathJoin(h, "leettools-mcp"), PathJoin(PathJoin(h, "leettools-mcp"), ".venv")>>

\* The directories under h that exist when k levels of its tree do.
Levels(h, k) == {HomeTree(h)[i] : i \in 1..k}

\* The file systems the first invocation can find: under each home
\* directory, a directory exists only inside an existing one.
FsStates ==
  LET homes == {v \in HomeValues : Truthy(v)}
  IN { UNION {Levels(h, depth[h]) : h \in homes} : depth \in [homes -> 0..3] }

Init ==
  /\ run = 1
  /\ pc = "getUvPath"
  /\ env \in Envs
  /\ exitCode = 0
  /\ log = <<>>
  /\ quota = Unlimited
  /\ fs \in FsStates
  /\ uvOnPath \in UvStates
  /\ uvFallback \in UvStates
  /\ calls = <<>>
  /\ uvExecutable = Undefined
  /\ repoDir = Undefined
  /\ child = "none"
  /\ childEnv = NoEnv
  /\ childCode = 0
  /\ venvMadeIn = {}
  /\ exitAt = "none"
  /\ logFailed = FALSE
  /\ fsAtStart = fs
  /\ statuses = <<>>

\* const uvExecutable = getUvPath(); logInfo(`uv executable to be used: ...`)
GetUvPath ==
  /\ pc = "getUvPath"
  /\ \E inst \in Installs :
       LET s == getUvPath(Proc, inst)
       IN Commit(LogInfo(s, <<"uv executable to be used: " \o s.uvExecutable>>, <<>>),
                 "ensureClone")

\* main(): const repoDir = ensureClone()
EnsureClone ==
  /\ pc = "ensureClone"
  /\ \E mkdirOk \in BOOLEAN, r \in Results :
       Commit(ensureClone(Proc, env, mkdirOk, r), "ensureVenv")

\* main(): ensureVenv(repoDir)
EnsureVenv ==
  /\ pc = "ensureVenv"
  /\ \E r \in Results : Commit(ensureVenv(Proc, r, run), "installDependencies")

\* main(): installDependencies(repoDir)
InstallDependencies ==
  /\ pc = "installDependencies"
  /\ \E r \in Results : Commit(installDependencies(Proc, r), "runServer")

\* main(): runServer(repoDir)
RunServer ==
  /\ pc = "runServer"
  /\ Commit(runServer(Proc, env), "serving")

\* The server child could not be started: its 'error' event.
ServerError ==
  /\ pc = "serving"
  /\ child = "running"
  /\ Commit(OnServerError([Proc EXCEPT !.child = "failed"]), "serving")

\* The server child ends: its 'exit' event.
ServerExit ==
  /\ pc = "serving"
  /\ child = "running"
  /\ \E code \in ChildCodes :
       Commit(OnServerExit([Proc EXCEPT !.child = "exited", !.childCode = code], code),
              "serving")

\* The log file stops accepting appends n writes from now (a full disk, a
\* changed permission).
LogFileFails ==
  /\ pc # "exited"
  /\ quota = Unlimited
  /\ \E n \in 0..MaxQuota : quota' = n
  /\ UNCHANGED <<run, pc, env, exitCode, log, fs, uvOnPath, uvFallback, calls,
                 uvExecutable, repoDir, child, childEnv, childCode, venvMadeIn,
                 exitAt, logFailed, fsAtStart, statuses>>

\* The launcher is invoked again on the same machine.  The log file keeps
\* the lines of the earlier invocations, which the script neither reads nor
\* rewrites: log starts again as the lines the new invocation appends.
StartRun ==
  /\ pc = "exited"
  /\ run < MaxRuns
  /\ run' = run + 1
  /\ pc' = "getUvPath"
  /\ env' \in Envs
  /\ exitCode' = 0
  /\ quota' = Unlimited
  /\ calls' = <<>>
  /\ uvExecutable' = Undefined
  /\ repoDir' = Undefined
  /\ child' = "none"
  /\ childEnv' = NoEnv
  /\ childCode' = 0
  /\ exitAt' = "none"
  /\ logFailed' = FALSE
  /\ log' = <<>>
  /\ fsAtStart' = fs
  /\ statuses' = <<>>
  /\ UNCHANGED <<fs, uvOnPath, uvFallback, venvMadeIn>>

Next ==
  \/ GetUvPath
  \/ EnsureClone
  \/ EnsureVenv
  \/ InstallDependencies
  \/ RunServer
  \/ ServerError
  \/ ServerExit
  \/ LogFileFails
  \/ StartRun

Spec == Init /\ [][Next]_vars

\* ------------------------------------------------------------- properties
Exited == pc = "exited"

\* The command lines this invocation has started.
Execs == {calls[i][2] : i \in {j \in 1..Len(calls) : calls[j][1] = "exec"}}

UvPaths == {PathUv, FallbackPath}

RepoDirs == {PathJoin(h, "leettools-mcp") : h \in HomeValues}

CloneRan == \E d \in RepoDirs : CloneCmd(d) \in Execs

VenvRan == \E u \in UvPaths : VenvCmd(u) \in Execs

AddRan == \E u \in UvPaths : AddCmd(u) \in Execs

MkdirRan == \E i \in 1..Len(calls) : calls[i][1] = "mkdir"

\* This invocation wrote a line with this level and text.
Logged(level, text) ==
  \E i \in 1..Len(log) : log[i].level = level /\ log[i].text = text

\* The last line of the log is one this invocation wrote at ERROR level.
LastIsError == Len(log) > 0 /\ log[Len(log)].level = "ERROR"

MissingRequired == ~Truthy(env["LEET_HOME"]) \/ ~Truthy(env["EDS_LLM_API_KEY"])

IsPrefix(a, b) == Len(a) <= Len(b) /\ a = SubSeq(b, 1, Len(a))

\* C1: with LEET_HOME or EDS_LLM_API_KEY unset or empty, the server child is
\* never spawned and the launcher exits with a non-zero code.
C1_MissingEnvExitsNonZero ==
  MissingRequired => child = "none" /\ (Exited => exitCode # 0)

\* C2: once spawned, the launcher outlives the server child; a child that
\* fails (any end other than code 0, a missing code included) gives the
\* launcher the child's code, non-zero; a child that exits 0 gives 0.  Runs
\* in which the log could not be written are left out.
C2_ChildCodePropagated ==
  /\ child = "running" => ~Exited
  /\ (Exited /\ child = "exited" /\ ~logFailed) =>
       /\ childCode # 0 => (exitCode = childCode /\ exitCode # 0)
       /\ childCode = 0 => exitCode = 0

\* The locator's calls in order: the check, the install, the re-check, the
\* fallback location.  p0 and p1 are uv on the path before and after the
\* install, f1 is uv at the fallback location after it.
CheckCalls(p) ==
  IF p = "absent" THEN << <<"exec", "which uv">> >>
  ELSE << <<"exec", "which uv">>, <<"exec", VersionCmd(PathUv)>> >>

LocatorChain(p0, p1, f1) ==
  CheckCalls(p0) \o << <<"exec", InstallCmd>> >> \o CheckCalls(p1)
    \o << <<"exists", FallbackPath>> >>
    \o (IF f1 = "absent" THEN <<>> ELSE << <<"exec", VersionCmd(FallbackPath)>> >>)

\* What the step of the tool locator must have done.
LocatorOutcome ==
  LET chain == LocatorChain(uvOnPath, uvOnPath', uvFallback')
      installFailed == Len(log') > Len(log) /\ log'[Len(log')].text =
                         "Failed to install uv. Please install uv manually."
  IN /\ uvOnPath = "working" =>
          /\ calls' = CheckCalls("working")
          /\ pc' = "ensureClone" => uvExecutable' = PathUv
          /\ pc' = "exited" => logFailed'
     /\ uvOnPath # "working" => IsPrefix(calls', chain)
     /\ pc' = "exited" => exitCode' = 1
     /\ (pc' = "exited" /\ ~logFailed') =>
          /\ log'[Len(log')].level = "ERROR"
          /\ \/ installFailed /\ calls' = CheckCalls(uvOnPath) \o << <<"exec", InstallCmd>> >>
             \/ ~installFailed /\ calls' = chain /\ uvOnPath' # "working"
                  /\ uvFallback' # "working"
     /\ pc' = "ensureClone" =>
          \/ uvExecutable' = PathUv /\ uvOnPath' = "working"
          \/ uvExecutable' = FallbackPath /\ uvFallback' = "working" /\ calls' = chain
               /\ uvOnPath' # "working"

C4_NoProvisioning ==
  exitCode = 1 /\ ~CloneRan /\ ~MkdirRan /\ ~VenvRan /\ ~AddRan /\ fs = fsAtStart

NewCalls == SubSeq(calls', Len(calls) + 1, Len(calls'))

\* What ensureClone must have done with LEET_HOME set to targetDir.
CloneOutcome(targetDir) ==
  LET dir == PathJoin(targetDir, "leettools-mcp")
      expected ==
        << <<"exists", targetDir>> >>
          \o (IF targetDir \notin fs THEN << <<"mkdir", targetDir>> >> ELSE <<>>)
          \o << <<"exists", dir>> >>
          \o (IF dir \notin fs THEN << <<"exec", CloneCmd(dir)>> >> ELSE <<>>)
      cloned == \E i \in 1..Len(NewCalls) : NewCalls[i] = <<"exec", CloneCmd(dir)>>
  IN /\ IsPrefix(NewCalls, expected)
     /\ (~logFailed' /\ targetDir \in fs') => NewCalls = expected
     /\ cloned <=> (dir \notin fs /\ NewCalls = expected)
     /\ dir \in fs => fs' = fs
     /\ fs' \subseteq fs \cup {targetDir, dir}
     /\ dir \in fs' \ fs => cloned
     /\ pc' = "ensureVenv" => repoDir' = dir /\ dir \in fs'

\* C5: with LEET_HOME set, ensureClone creates LEET_HOME first if it is
\* missing, then runs git clone if and only if <LEET_HOME>/leettools-mcp
\* does not exist when it is checked (a step that a failed log write or a
\* failed mkdir ended before the command was reached runs nothing further);
\* with the directory there it runs no command and changes no directory; it
\* returns <LEET_HOME>/leettools-mcp either way.
C5_CloneIffMissing ==
  [][(pc = "ensureClone" /\ pc' # "ensureClone" /\ Truthy(env["LEET_HOME"]))
       => CloneOutcome(env["LEET_HOME"])]_vars

\* C5 witness: the repository was there, and the step returned its path
\* having run no clone and changed no directory.
C5_Witness ==
  /\ pc = "ensureVenv" /\ ~CloneRan /\ fs = fsAtStart
  /\ repoDir = PathJoin(env["LEET_HOME"], "leettools-mcp") /\ repoDir \in fs

VenvPath == PathJoin(PathJoin(env["LEET_HOME"], "leettools-mcp"), ".venv")

PastVenv ==
  \/ pc \in {"installDependencies", "runServer", "serving"}
  \/ Exited /\ exitAt \in {"installDependencies", "runServer", "serving"}

PastInstall ==
  \/ pc \in {"runServer", "serving"}
  \/ Exited /\ exitAt \in {"runServer", "serving"}

\* C6: `uv venv` is run if and only if <repoDir>/.venv does not exist, and
\* once an invocation created the venv of a repository no later invocation
\* on that repository runs `uv venv` again, and the directory stays.
C6_VenvIdempotent ==
  /\ \A made \in venvMadeIn :
       /\ made[1] \in fs
       /\ (run > made[2] /\ made[1] = VenvPath) => ~VenvRan
  /\ VenvRan => (Truthy(env["LEET_HOME"]) /\ VenvPath \notin fsAtStart)
  /\ (PastVenv /\ VenvPath \notin fsAtStart) => VenvRan
  /\ PastVenv => VenvPath \in fs
  /\ fsAtStart \subseteq fs

\* C6 witness: the venv was made by the first invocation, and the second
\* one, on the same repository, got past ensureVenv and launched the server.
C6_Witness ==
  /\ run = 2 /\ <<VenvPath, 1>> \in venvMadeIn /\ PastVenv /\ child = "running"

\* The child commands of main(), the tool locator's left out.
MainExecs ==
  LET isMain(c) == c[1] = "exec" /\ c[2] \notin
        {"which uv", InstallCmd, VersionCmd(PathUv), VersionCmd(FallbackPath)}
      sel == SelectSeq(calls, isMain)
  IN [i \in 1..Len(sel) |-> sel[i][2]]

\* C7: the dependency install has no skip condition: every invocation that
\* gets past installDependencies has run `uv add` exactly once, whatever the
\* directories were; with LEET_HOME set and the repository and the venv
\* there, no clone, mkdir or venv command runs, and the commands of a run
\* that launched the server are exactly the install and then the server.
C7_InstallUnconditional ==
  /\ PastInstall => Len(SelectSeq(MainExecs, LAMBDA c : c = AddCmd(uvExecutable))) = 1
  /\ child # "none" =>
       /\ Len(MainExecs) >= 2
       /\ SubSeq(MainExecs, Len(MainExecs) - 1, Len(MainExecs)) =
            <<AddCmd(uvExecutable), ServerCmd(uvExecutable, repoDir)>>
  /\ (Exited /\ exitAt = "installDependencies" /\ ~logFailed) => AddRan
  /\ (Truthy(env["LEET_HOME"]) /\ VenvPath \in fsAtStart) =>
       /\ ~CloneRan /\ ~VenvRan /\ ~MkdirRan
       /\ child # "none" =>
            MainExecs = <<AddCmd(uvExecutable), ServerCmd(uvExecutable, repoDir)>>

\* C7 witness: everything was there and the server was launched.
C7_Witness ==
  /\ Truthy(env["LEET_HOME"]) /\ VenvPath \in fsAtStart /\ child = "running"
  /\ MainExecs = <<AddCmd(uvExecutable), ServerCmd(uvExecutable, repoDir)>>

\* What an invocation has appended to the log is only ever extended.
C8_AppendOnly == [][run' = run => IsPrefix(log, log')]_vars

\* C8: every line of the log file is `{ISO timestamp} [{LEVEL}] {message}`
\* with LEVEL INFO or ERROR, captured command output included.
C8_EveryLineFormatted ==
  \A i \in 1..Len(log) : log[i].ts = "ISO" /\ log[i].level \in {"INFO", "ERROR"}

\* C9: every fatal condition ends the launcher with a non-zero code and,
\* with the logger working, an ERROR entry as the last thing logged; the
\* internal conditions exit with exactly 1; exit code 0 means the whole
\* workflow succeeded.
C9_FatalExitsNonZero ==
  Exited =>
    /\ exitCode = 0 => (child = "exited" /\ childCode = 0)
    /\ (exitCode # 0 /\ ~logFailed) => LastIsError
    /\ logFailed => exitCode = 1
    /\ exitAt = "getUvPath" => exitCode = 1
    /\ (exitAt \in {"ensureClone", "runServer"} /\ MissingRequired /\ ~CloneRan)
         => exitCode = 1

\* C10 (amended): the server child gets every variable of the launcher's
\* environment unchanged except UV_HTTP_TIMEOUT, which is always 300,
\* whatever value the user gave it.
C10_ChildEnv ==
  child # "none" =>
    /\ \A n \in EnvNames \ {"UV_HTTP_TIMEOUT"} : childEnv[n] = env[n]
    /\ childEnv["UV_HTTP_TIMEOUT"] = "300"

\* C10 (as claimed): every variable is passed unchanged, and a
\* UV_HTTP_TIMEOUT given by the user is the one the child gets, 300 being
\* used only when none is given.
C10_UserTimeoutForwarded ==
  child # "none" =>
    /\ \A n \in EnvNames : env[n] # Undefined => childEnv[n] = env[n]
    /\ childEnv["UV_HTTP_TIMEOUT"] =
         IF env["UV_HTTP_TIMEOUT"] # Undefined THEN env["UV_HTTP_TIMEOUT"] ELSE "300"

\* C10 witness: the server was spawned by a launcher given UV_HTTP_TIMEOUT.
C10_Witness == child = "running" /\ env["UV_HTTP_TIMEOUT"] = "60"

\* The steps of the script in the order main() runs them.
StepOrder ==
  <<"getUvPath", "ensureClone", "ensureVenv", "installDependencies", "runServer",
    "serving">>

\* The place of a command of main() in the workflow, 0 for any other.
StepOf(c) ==
  CASE c = CloneCmd(PathJoin(env["LEET_HOME"], "leettools-mcp")) -> 2
    [] c = VenvCmd(uvExecutable) -> 3
    [] c = AddCmd(uvExecutable) -> 4
    [] c = ServerCmd(uvExecutable, repoDir) -> 5
    [] OTHER -> 0

\* The last command runCommandSync ran, as <<command line, status>>.
LastStatus == statuses[Len(statuses)]

\* The launcher moves from a step to the next one or to its exit only.
C11_StepOrder ==
  [][run' = run =>
       \/ pc' \in {pc, "exited"}
       \/ \E i \in 1..(Len(StepOrder) - 1) : pc = StepOrder[i] /\ pc' = StepOrder[i + 1]]_vars

\* The commands of main() run in the order clone, venv, install, server,
\* each at most once and each in its own step; a provisioning command that
\* was started has returned before the next state, so the only child that
\* is ever alive between two steps is the server; a command that returned a
\* status other than 0 is the last one, the launcher exited in its step and
\* no server was spawned; the server is spawned only after `uv add`
\* returned status 0.
C11_Linear ==
  /\ \A i \in 1..Len(MainExecs) : StepOf(MainExecs[i]) # 0
  /\ \A i, j \in 1..Len(MainExecs) :
       i < j => StepOf(MainExecs[i]) < StepOf(MainExecs[j])
  /\ [i \in 1..Len(statuses) |-> statuses[i][1]] =
       SelectSeq(MainExecs, LAMBDA c : StepOf(c) # 5)
  /\ \A i \in 1..(Len(statuses) - 1) : statuses[i][2] = 0
  /\ (statuses # <<>> /\ LastStatus[2] # 0) =>
       /\ Exited /\ child = "none"
       /\ exitAt = StepOrder[StepOf(LastStatus[1])]
  /\ (statuses # <<>> /\ LastStatus[2] = 0 /\ ~Exited) =>
       pc \in {StepOrder[i] : i \in (StepOf(LastStatus[1]) + 1)..Len(StepOrder)}
  /\ child # "none" =>
       statuses # <<>> /\ LastStatus = <<AddCmd(uvExecutable), 0>>

\* C11: the workflow is strictly linear, at most one child exists at a
\* time, the server is spawned only after the install returned status 0,
\* and a provisioning command that ends unsuccessfully (any status other
\* than 0, a missing status included) ends the launcher in that step with
\* that command's status, a failure, as the launcher's exit code.  Runs in
\* which the log could not be written are left out of the last part.
C11_AbortWithStatus ==
  /\ C11_Linear
  /\ (statuses # <<>> /\ LastStatus[2] # 0 /\ ~logFailed) =>
       exitCode = LastStatus[2] /\ exitCode # 0

\* What the launcher's exit code is after an unsuccessful provisioning
\* command: the command's status, and 0 when the command reported none.
C11_ExitCodeOfStatus ==
  (statuses # <<>> /\ LastStatus[2] # 0 /\ ~logFailed) =>
    exitCode = IF LastStatus[2] = Null THEN 0 ELSE LastStatus[2]

\* The values of the API credential the launcher is invoked with.
ApiKeys == {v \in {e["EDS_LLM_API_KEY"] : e \in Envs} : Truthy(v)}

\* This invocation's environment with another value of the credential.
WithKey(k) == [env EXCEPT !["EDS_LLM_API_KEY"] = k]

\* A log with the value of every EDS_LLM_API_KEY pair blanked.
Redacted(lines) ==
  [i \in 1..Len(lines) |->
     [lines[i] EXCEPT !.extra =
        [j \in 1..Len(@) |->
           IF @[j][1] = "EDS_LLM_API_KEY" THEN <<@[j][1], "***">> ELSE @[j]]]]

\* C12: the log does not depend on the value of the credential.  The two
\* functions that read process.env are ensureClone and runServer: from the
\* same state, with the same behaviour of the child commands and the same
\* failures, each of them leaves the same log whatever non-empty value
\* EDS_LLM_API_KEY has.
C12_LogIndependentOfKey ==
  \A k \in ApiKeys :
    Truthy(env["EDS_LLM_API_KEY"]) =>
      /\ pc = "ensureClone" =>
           \A mkdirOk \in BOOLEAN, r \in Results :
             ensureClone(Proc, WithKey(k), mkdirOk, r).log =
               ensureClone(Proc, env, mkdirOk, r).log
      /\ pc = "runServer" =>
           runServer(Proc, WithKey(k)).log = runServer(Proc, env).log

\* Where the credential is in the log: only as the value of the
\* EDS_LLM_API_KEY pair of the 'Environment variables set' entry that
\* runServer writes; with that value blanked the log is the same for every
\* value of the credential.
C12_KeyOnlyInEnvEntry ==
  /\ \A i \in 1..Len(log) : \A j \in 1..Len(log[i].extra) :
       log[i].extra[j][2] \in ApiKeys =>
         /\ log[i].text = "Environment variables set"
         /\ log[i].extra[j] = <<"EDS_LLM_API_KEY", env["EDS_LLM_API_KEY"]>>
  /\ \A k \in ApiKeys :
       Truthy(env["EDS_LLM_API_KEY"]) =>
         /\ pc = "ensureClone" =>
              \A mkdirOk \in BOOLEAN, r \in Results :
                ensureClone(Proc, WithKey(k), mkdirOk, r).log =
                  ensureClone(Proc, env, mkdirOk, r).log
         /\ pc = "runServer" =>
              Redacted(runServer(Proc, WithKey(k)).log) =
                Redacted(runServer(Proc, env).log)

====
